---- MODULE Spec2Model ----
(***************************************************************************)
(* Waveform objects of balderhub-waveform: periodic and non-periodic       *)
(* sampled signals, their conversion to volts, resampling, extraction of   *)
(* the periodic pattern of a sample buffer, phase estimation and the       *)
(* comparison protocol.                                                    *)
(*                                                                         *)
(* Numbers.  Normalised samples are integers in units of 1/One, voltages   *)
(* are integers in units of 1/(2*One) volt (the periodic conversion halves *)
(* the peak-to-peak amplitude).  Frequencies, sample intervals, tolerances *)
(* and phases are exact rationals <<n, d>> with d > 0 in lowest terms; a   *)
(* phase is a fraction of a full turn, so 2*pi is <<1, 1>>.  Floating      *)
(* point rounding error is not modelled.                                   *)
(***************************************************************************)
EXTENDS Integers, Sequences, FiniteSets, TLC

VARIABLES a, b, pc, frame, ret, derived

vars == <<a, b, pc, frame, ret, derived>>

(***************************************************************************)
(* Arithmetic                                                              *)
(***************************************************************************)
One == 2^6

VoltOne == 2 * One

Abs(x) == IF x < 0 THEN -x ELSE x

RECURSIVE Gcd(_, _)
Gcd(x, y) == IF y = 0 THEN x ELSE Gcd(y, x % y)

Rat(n, d) ==
    LET s == IF d < 0 THEN -1 ELSE 1
        g == Gcd(Abs(n), Abs(d))
    IN  <<(s * n) \div g, (s * d) \div g>>

RatOfInt(n) == <<n, 1>>

RatMul(x, y) == Rat(x[1] * y[1], x[2] * y[2])

RatDiv(x, y) == Rat(x[1] * y[2], x[2] * y[1])

RatSub(x, y) == Rat(x[1] * y[2] - y[1] * x[2], x[2] * y[2])

RatAdd(x, y) == Rat(x[1] * y[2] + y[1] * x[2], x[2] * y[2])

RatLess(x, y) == x[1] * y[2] < y[1] * x[2]

RatLeq(x, y) == x[1] * y[2] <= y[1] * x[2]

RatMax(x, y) == IF RatLess(x, y) THEN y ELSE x

\* x % (2*pi) for a phase held as a fraction of a turn: the result is in [0, 1)
ModTurn(x) == Rat(x[1] % x[2], x[2])

\* Python's int(): truncation towards zero
py_int(x) == IF x[1] >= 0 THEN x[1] \div x[2] ELSE -((-x[1]) \div x[2])

\* Python's round(): to the nearest integer, a tie to the even neighbour
py_round(x) ==
    LET fl == x[1] \div x[2]
        twice == 2 * (x[1] - fl * x[2])
    IN  IF twice < x[2] THEN fl
        ELSE IF twice > x[2] THEN fl + 1
        ELSE IF fl % 2 = 0 THEN fl ELSE fl + 1

\* n / d rounded to the nearest unit of the sample grid (ties away from zero)
RoundDiv(n, d) ==
    IF n >= 0 THEN (2 * n + d) \div (2 * d) ELSE -((2 * (-n) + d) \div (2 * d))

\* sum of s[lo..hi], by halves so that long buffers nest shallowly
RECURSIVE RangeSum(_, _, _)
RangeSum(s, lo, hi) ==
    IF lo > hi THEN 0
    ELSE IF lo = hi THEN s[lo]
    ELSE LET mid == (lo + hi) \div 2
         IN  RangeSum(s, lo, mid) + RangeSum(s, mid + 1, hi)

SeqSum(s) == RangeSum(s, 1, Len(s))

Range(s) == {s[i] : i \in 1..Len(s)}

\* max(s) and min(s) of a non-empty sequence
SeqMax(s) == CHOOSE m \in Range(s) : \A x \in Range(s) : x <= m

SeqMin(s) == CHOOSE m \in Range(s) : \A x \in Range(s) : m <= x

(***************************************************************************)
(* Python values: what an operation returns or raises                      *)
(***************************************************************************)
PyBool(v) == [t |-> "bool", v |-> v]

PyNone == [t |-> "none"]

PyFloat(x) == [t |-> "float", v |-> x]

PyArray(s) == [t |-> "array", v |-> s]

PyObject(w) == [t |-> "waveform", v |-> w]

Raise(e) == [t |-> "raise", v |-> e]

IsRaise(r) == r.t = "raise"

NoValue == [t |-> "nothing"]

(***************************************************************************)
(* Waveform objects                                                        *)
(***************************************************************************)
PeriodicKinds ==
    {"SineWaveform", "CosineWaveform", "DCWaveform", "CardiacWaveform",
     "CustomPeriodicWaveform"}

IsPeriodic(w) == w.kind \in PeriodicKinds

\* isinstance(w, CustomNonPeriodicWaveform)
IsCustomNonPeriodic(w) == w.kind = "CustomNonPeriodicWaveform"

\* isinstance(w, CustomPeriodicWaveform)
IsCustomPeriodic(w) == w.kind = "CustomPeriodicWaveform"

\* One cycle of each generator.  The generators of the library sample their
\* closed form at 16384 points; here the same closed forms are sampled at 4
\* points (sine and cosine over linspace(0, 2*pi, 4), end point included; the
\* cardiac shape over linspace(0, 1, 4), end point excluded) and rounded to
\* the sample grid.
SineData == <<0, 55, -55, 0>>

CosineData == <<One, -32, -32, One>>

CardiacData == <<0, 5, 3, 18>>

DCData == <<0, 0>>

data(w) ==
    CASE w.kind = "SineWaveform" -> SineData
      [] w.kind = "CosineWaveform" -> CosineData
      [] w.kind = "CardiacWaveform" -> CardiacData
      [] w.kind = "DCWaveform" -> DCData
      [] OTHER -> w.data

\* validate_data with the range check left out
validate_data_skipped(w) == NoValue

\* AbstractWaveform._validate_data; the builtin max() of an empty array raises
validate_data(w) ==
    IF data(w) = <<>> THEN Raise("ValueError: empty sequence")
    ELSE IF SeqMax(data(w)) > One \/ SeqMin(data(w)) < -One
         THEN Raise("ValueError: data out of range")
         ELSE NoValue

BasePeriodicWaveform(kind, d, frequency_hz, amplitude_vpp, offset_vdc, phase) ==
    [kind |-> kind, data |-> d, frequency_hz |-> frequency_hz,
     amplitude_vpp |-> amplitude_vpp, offset_vdc |-> offset_vdc,
     phase |-> ModTurn(phase)]

\* A generator: the base constructor only, no validation
Generator(kind, frequency_hz, amplitude_vpp, offset_vdc, phase) ==
    PyObject(BasePeriodicWaveform(kind, <<>>, frequency_hz, amplitude_vpp,
                                  offset_vdc, phase))

CustomPeriodicWaveform(d, frequency_hz, amplitude_vpp, offset_vdc, phase) ==
    LET w == BasePeriodicWaveform("CustomPeriodicWaveform", d, frequency_hz,
                                  amplitude_vpp, offset_vdc, phase)
    IN  IF IsRaise(validate_data(w)) THEN validate_data(w) ELSE PyObject(w)

\* peaks: what the peak search of the library answers for this buffer (the
\* indices into auto_corr[min_lag:], ascending); a function of the samples that
\* is not computed here, so it is carried with the buffer.
BaseNonPeriodicWaveform(d, multiplier_amplitude_volt, delta_time_sec, offset_vdc, peaks) ==
    [kind |-> "CustomNonPeriodicWaveform", data |-> d,
     multiplier_amplitude_volt |-> multiplier_amplitude_volt,
     delta_time_sec |-> delta_time_sec, offset_vdc |-> offset_vdc,
     peaks |-> peaks]

CustomNonPeriodicWaveform(d, multiplier_amplitude_volt, delta_time_sec, offset_vdc, peaks) ==
    LET w == BaseNonPeriodicWaveform(d, multiplier_amplitude_volt, delta_time_sec,
                                     offset_vdc, peaks)
    IN  IF IsRaise(validate_data(w)) THEN validate_data(w) ELSE PyObject(w)

delta_time_sec(w) ==
    IF IsPeriodic(w)
    THEN RatDiv(RatDiv(RatOfInt(1), w.frequency_hz), RatOfInt(Len(data(w))))
    ELSE w.delta_time_sec

\* BaseNonPeriodicWaveform.total_time_sec
total_time_sec(w) == RatMul(RatOfInt(Len(data(w)) - 1), w.delta_time_sec)

(***************************************************************************)
(* Conversion to volts                                                     *)
(***************************************************************************)
\* split_at with the index rounded to the nearest sample
split_at_rounded(w) == py_round(RatMul(RatOfInt(Len(data(w))), ModTurn(w.phase)))

\* BasePeriodicWaveform.get_data_in_volts: the index the cycle is split at
split_at(w) == py_int(RatMul(RatOfInt(Len(data(w))), ModTurn(w.phase)))

\* np.concatenate((x[k:], x[:k]))
Rotate(x, k) == SubSeq(x, k + 1, Len(x)) \o SubSeq(x, 1, k)

periodic_data_in_volts(w) ==
    LET phase_cleaned_raw_data == Rotate(data(w), split_at(w))
    IN  [i \in 1..Len(data(w)) |->
            phase_cleaned_raw_data[i] * w.amplitude_vpp - w.offset_vdc * VoltOne]

\* BaseNonPeriodicWaveform.get_data_in_volts
non_periodic_data_in_volts(w) ==
    [i \in 1..Len(data(w)) |->
        2 * data(w)[i] * w.multiplier_amplitude_volt - w.offset_vdc * VoltOne]

get_data_in_volts(w) ==
    IF IsPeriodic(w) THEN periodic_data_in_volts(w) ELSE non_periodic_data_in_volts(w)

(***************************************************************************)
(* Resampling                                                              *)
(***************************************************************************)
\* scipy.signal.resample(x, num) followed by np.round(..., decimals=6): the
\* Fourier resampling of a real sequence.  The weights are written out for the
\* lengths whose weights are rational: the same length (the transform and its
\* inverse), one output sample (the mean), one input sample (a constant), and
\* 2 <-> 4 samples.  Results are held on the sample grid.
ResampleTabled(n, num) ==
    \/ num = n
    \/ num = 1
    \/ n = 1
    \/ n = 2 /\ num = 4
    \/ n = 4 /\ num = 2

resample(x, num) ==
    CASE num = Len(x) -> x
      [] num = 1 /\ Len(x) > 1 -> <<RoundDiv(SeqSum(x), Len(x))>>
      [] Len(x) = 1 /\ num > 1 -> [i \in 1..num |-> x[1]]
      [] Len(x) = 2 /\ num = 4 ->
            <<x[1], RoundDiv(x[1] + x[2], 2), x[2], RoundDiv(x[1] + x[2], 2)>>
      [] Len(x) = 4 /\ num = 2 ->
            <<RoundDiv(3 * x[1] + x[2] - x[3] + x[4], 4),
              RoundDiv(-x[1] + x[2] + 3 * x[3] + x[4], 4)>>

\* int(len(self.data) * float(self.delta_time_sec / interval_sec))
new_data_point_cnt(w, interval_sec) ==
    py_int(RatMul(RatOfInt(Len(data(w))), RatDiv(delta_time_sec(w), interval_sec)))

periodic_resampled_version(w, interval_sec) ==
    IF new_data_point_cnt(w, interval_sec) = 0
    THEN Raise("ValueError: can not resample data")
    ELSE CustomPeriodicWaveform(resample(data(w), new_data_point_cnt(w, interval_sec)),
                                w.frequency_hz, w.amplitude_vpp, w.offset_vdc, w.phase)

\* The non-periodic variant hands the count to the resampling primitive
\* unchecked; the primitive rejects a count of zero (its inverse transform
\* refuses zero points).
non_periodic_resampled_version(w, interval_sec) ==
    IF new_data_point_cnt(w, interval_sec) = 0
    THEN Raise("ValueError: invalid number of data points")
    ELSE LET new_data == resample(data(w), new_data_point_cnt(w, interval_sec))
         IN  CustomNonPeriodicWaveform(
                 new_data, w.multiplier_amplitude_volt, interval_sec, w.offset_vdc,
                 IF new_data = data(w) THEN w.peaks ELSE <<>>)

get_resampled_version(w, interval_sec) ==
    IF IsPeriodic(w) THEN periodic_resampled_version(w, interval_sec)
    ELSE non_periodic_resampled_version(w, interval_sec)

(***************************************************************************)
(* Root-mean-square error and correlation                                  *)
(***************************************************************************)
SqDiff(x, y) == [i \in 1..Len(x) |-> (x[i] - y[i]) * (x[i] - y[i])]

CeilDiv(n, d) == (n + d - 1) \div d

\* np.sqrt(np.mean((x - y) ** 2)) < max_allowed_rmse for two voltage arrays of
\* one length: sum/n/VoltOne^2 < (num/den)^2, with the squares compared
RmseBelow(x, y, max_allowed_rmse) ==
    /\ max_allowed_rmse[1] > 0
    /\ SeqSum(SqDiff(x, y)) <
           CeilDiv(Len(x) * VoltOne * VoltOne * max_allowed_rmse[1] * max_allowed_rmse[1],
                   max_allowed_rmse[2] * max_allowed_rmse[2])

\* numpy broadcasting of x - y over one axis
Broadcastable(x, y) == Len(x) = Len(y) \/ Len(x) = 1 \/ Len(y) = 1

BroadcastTo(x, n) == IF Len(x) = n THEN x ELSE [i \in 1..n |-> x[1]]

\* rmse_compare with the comparison turned round
rmse_compare_inverted(x, y, max_allowed_rmse) ==
    IF ~Broadcastable(x, y) THEN Raise("ValueError: operands could not be broadcast")
    ELSE LET n == IF Len(x) > Len(y) THEN Len(x) ELSE Len(y)
         IN  PyBool(~RmseBelow(BroadcastTo(x, n), BroadcastTo(y, n), max_allowed_rmse))

\* rmse < max_allowed_rmse, or the ValueError of arrays that do not broadcast
rmse_compare(x, y, max_allowed_rmse) ==
    IF ~Broadcastable(x, y) THEN Raise("ValueError: operands could not be broadcast")
    ELSE LET n == IF Len(x) > Len(y) THEN Len(x) ELSE Len(y)
         IN  PyBool(RmseBelow(BroadcastTo(x, n), BroadcastTo(y, n), max_allowed_rmse))

\* np.tile(x, 2)
Tile2(x) == x \o x

RECURSIVE DotAt(_, _, _, _)
DotAt(x, y, k, i) ==
    IF i = 0 THEN 0 ELSE x[i + k] * y[i] + DotAt(x, y, k, i - 1)

\* correlate(x, y, mode='valid') for len(x) >= len(y): entry k (from 0) is the
\* sum over n of x[n + k] * y[n]
correlate_valid(x, y) ==
    [k \in 1..(Len(x) - Len(y) + 1) |-> DotAt(x, y, k - 1, Len(y))]

\* np.argmax: the first position of the maximum, counted from 0
argmax(c) ==
    (CHOOSE k \in 1..Len(c) :
        /\ \A j \in 1..Len(c) : c[j] <= c[k]
        /\ \A j \in 1..(k - 1) : c[j] < c[k]) - 1

\* x[lo:hi] of Python, counted from 0, hi cut at the end
Slice(x, lo, hi) == SubSeq(x, lo + 1, IF hi > Len(x) THEN Len(x) ELSE hi)

(***************************************************************************)
(* Periodic comparison and phase difference                                *)
(***************************************************************************)
\* BasePeriodicWaveform.compare, lines 171-176: both resampled to the coarser
\* interval and compared in volts
periodic_rmse_path(self, with_waveform, max_allowed_rmse) ==
    LET common_delta_time == RatMax(delta_time_sec(self), delta_time_sec(with_waveform))
        self_resampled == get_resampled_version(self, common_delta_time)
        other_resampled == get_resampled_version(with_waveform, common_delta_time)
    IN  IF IsRaise(self_resampled) THEN self_resampled
        ELSE IF IsRaise(other_resampled) THEN other_resampled
        ELSE rmse_compare(get_data_in_volts(self_resampled.v),
                          get_data_in_volts(other_resampled.v), max_allowed_rmse)

RECURSIVE periodic_compare_direct(_, _, _, _)

\* phase_found with the estimated phase added to the other waveform's phase
\* instead of subtracted from it
phase_found_added(self, other, max_allowed_rmse, self_signal, other_signal) ==
    LET tiled == Tile2(self_signal)
        auto_corr == correlate_valid(tiled, other_signal)
        best_pos == argmax(auto_corr)
        window == Slice(tiled, best_pos, best_pos + Len(data(self)))
        phase == Rat(best_pos, Len(data(self)))
        new_modified_waveform ==
            CustomPeriodicWaveform(data(other), other.frequency_hz, other.amplitude_vpp,
                                   other.offset_vdc, RatAdd(other.phase, phase))
    IN  IF Len(window) < Len(other_signal) THEN PyBool(FALSE)
        ELSE IF IsRaise(new_modified_waveform) THEN new_modified_waveform
        ELSE LET same == periodic_compare_direct(self, new_modified_waveform.v,
                                                 max_allowed_rmse, FALSE)
             IN  IF IsRaise(same) THEN same
                 ELSE IF same.v THEN PyFloat(phase) ELSE PyNone

\* BasePeriodicWaveform.get_phase_difference_to from the correlation on; the
\* final test is self.compare(new_modified_waveform, max_allowed_rmse,
\* ignore_phase=False), whose argument is a CustomPeriodicWaveform
phase_found(self, other, max_allowed_rmse, self_signal, other_signal) ==
    LET tiled == Tile2(self_signal)
        auto_corr == correlate_valid(tiled, other_signal)
        best_pos == argmax(auto_corr)
        window == Slice(tiled, best_pos, best_pos + Len(data(self)))
        phase == Rat(best_pos, Len(data(self)))
        new_modified_waveform ==
            CustomPeriodicWaveform(data(other), other.frequency_hz, other.amplitude_vpp,
                                   other.offset_vdc, RatSub(other.phase, phase))
    IN  IF Len(window) < Len(other_signal) THEN PyBool(FALSE)
        ELSE IF IsRaise(new_modified_waveform) THEN new_modified_waveform
        ELSE LET same == periodic_compare_direct(self, new_modified_waveform.v,
                                                 max_allowed_rmse, FALSE)
             IN  IF IsRaise(same) THEN same
                 ELSE IF same.v THEN PyFloat(phase) ELSE PyNone

get_phase_difference_to(self, other, max_allowed_rmse) ==
    IF self.amplitude_vpp # other.amplitude_vpp THEN PyBool(FALSE)
    ELSE IF self.frequency_hz # other.frequency_hz THEN PyBool(FALSE)
    ELSE LET common_delta_time == RatMax(delta_time_sec(self), delta_time_sec(other))
             self_resampled == get_resampled_version(self, common_delta_time)
             other_resampled == get_resampled_version(other, common_delta_time)
         IN  IF IsRaise(self_resampled) THEN self_resampled
             ELSE IF IsRaise(other_resampled) THEN other_resampled
             ELSE phase_found(self, other, max_allowed_rmse,
                              get_data_in_volts(self_resampled.v),
                              get_data_in_volts(other_resampled.v))

\* "x is not None"
IsNotNone(r) == r.t # "none"

\* BasePeriodicWaveform.compare, lines 165-176: the other waveform is not a
\* CustomNonPeriodicWaveform
periodic_compare_direct(self, with_waveform, max_allowed_rmse, ignore_phase) ==
    IF self.frequency_hz # with_waveform.frequency_hz THEN PyBool(FALSE)
    ELSE IF ignore_phase
         THEN LET r == get_phase_difference_to(self, with_waveform, max_allowed_rmse)
              IN  IF IsRaise(r) THEN r ELSE PyBool(IsNotNone(r))
         ELSE periodic_rmse_path(self, with_waveform, max_allowed_rmse)

\* BaseNonPeriodicWaveform.compare, lines 176-183: the other waveform is not a
\* CustomPeriodicWaveform
non_periodic_compare_direct(self, with_waveform, max_allowed_rmse) ==
    LET common_delta_time == RatMax(delta_time_sec(self), delta_time_sec(with_waveform))
        self_resampled == get_resampled_version(self, common_delta_time)
        other_resampled == get_resampled_version(with_waveform, common_delta_time)
    IN  IF IsRaise(self_resampled) THEN self_resampled
        ELSE IF IsRaise(other_resampled) THEN other_resampled
        ELSE LET self_data == get_data_in_volts(self_resampled.v)
                 other_data == get_data_in_volts(other_resampled.v)
             IN  IF Len(self_data) # Len(other_data) THEN PyBool(FALSE)
                 ELSE PyBool(RmseBelow(self_data, other_data, max_allowed_rmse))

(***************************************************************************)
(* Extraction of the periodic pattern                                      *)
(***************************************************************************)
MinSamples == 300

MinLagFloor == 8

MinLagDivisor == 80

MaxCandidates == 12

MinCycles == 3

\* rel_var is held in units of 1/RelVarScale; the threshold 0.22 is
\* RelVarThreshold of these units
RelVarScale == 10^4

RelVarThreshold == (22 * RelVarScale) \div 100

\* np.inf
RelVarInf == 2 * 10^9

\* a rel_var whose denominator is only the 1e-9 guard is finite and beyond any
\* rel_var of a mean cycle that is not flat; among themselves such values are
\* ordered by their numerator, the mean standard deviation
RelVarHuge == 10^9

\* standard deviations are held in quarters of a sample unit
StdScale == 2 * 2

RECURSIVE IsqrtIn(_, _, _)
IsqrtIn(n, lo, hi) ==
    IF lo = hi THEN lo
    ELSE LET mid == (lo + hi + 1) \div 2
         IN  IF mid * mid <= n THEN IsqrtIn(n, mid, hi) ELSE IsqrtIn(n, lo, mid - 1)

\* the integer part of the square root of n, 0 <= n < 2^30
Isqrt(n) == IsqrtIn(n, 0, 32767)

min_lag(w) ==
    IF MinLagFloor > Len(data(w)) \div MinLagDivisor
    THEN MinLagFloor ELSE Len(data(w)) \div MinLagDivisor

\* np.sort(peaks + min_lag)
candidate_periods(w) == [i \in 1..Len(w.peaks) |-> w.peaks[i] + min_lag(w)]

\* trimmed.reshape((n_cycles, period)): row i, column j, both from 1
Cell(d, period, i, j) == d[(i - 1) * period + j]

RECURSIVE ColSum(_, _, _, _)
ColSum(d, period, i, j) ==
    IF i = 0 THEN 0 ELSE Cell(d, period, i, j) + ColSum(d, period, i - 1, j)

RECURSIVE ColSumSq(_, _, _, _)
ColSumSq(d, period, i, j) ==
    IF i = 0 THEN 0
    ELSE Cell(d, period, i, j) * Cell(d, period, i, j) + ColSumSq(d, period, i - 1, j)

\* n_cycles * StdScale * np.std(cycles, axis=0)[j]
ColStd(d, period, n_cycles, j) ==
    Isqrt(StdScale * StdScale *
          (n_cycles * ColSumSq(d, period, n_cycles, j)
             - ColSum(d, period, n_cycles, j) * ColSum(d, period, n_cycles, j)))

\* rel_var = mean(std of the columns) / (ptp(mean cycle) + 1e-9)
rel_var(d, period, n_cycles) ==
    LET sums == [j \in 1..period |-> ColSum(d, period, n_cycles, j)]
        stds == [j \in 1..period |-> ColStd(d, period, n_cycles, j)]
        ptp == SeqMax(sums) - SeqMin(sums)
    IN  IF ptp = 0
        THEN (IF SeqSum(stds) = 0 THEN 0
              ELSE RelVarHuge + (RelVarScale * SeqSum(stds))
                                    \div (StdScale * period * n_cycles))
        ELSE (RelVarScale * SeqSum(stds)) \div (StdScale * period * ptp)

\* np.mean(cycles, axis=0)
mean_cycle(d, period, n_cycles) ==
    [j \in 1..period |-> RoundDiv(ColSum(d, period, n_cycles, j), n_cycles)]

NoBest == [best_period |-> 0, best_rel_var |-> RelVarInf, best_n_cycles |-> 0]

\* evaluate_candidates without the break: a candidate below the threshold is
\* tracked like any other and the loop goes on
RECURSIVE evaluate_candidates_exhaustive(_, _, _, _)
evaluate_candidates_exhaustive(d, cands, i, best) ==
    IF i > Len(cands) \/ i > MaxCandidates THEN best
    ELSE LET period == cands[i]
             n_cycles == Len(d) \div period
         IN  IF n_cycles < MinCycles
             THEN evaluate_candidates_exhaustive(d, cands, i + 1, best)
             ELSE LET rv == rel_var(d, period, n_cycles)
                      this == [best_period |-> period, best_rel_var |-> rv,
                               best_n_cycles |-> n_cycles]
                  IN  IF rv < best.best_rel_var
                      THEN evaluate_candidates_exhaustive(d, cands, i + 1, this)
                      ELSE evaluate_candidates_exhaustive(d, cands, i + 1, best)

\* The loop over candidate_periods[:12] from position i on, with the best so
\* far; best_period 0 stands for None
RECURSIVE evaluate_candidates(_, _, _, _)
evaluate_candidates(d, cands, i, best) ==
    IF i > Len(cands) \/ i > MaxCandidates THEN best
    ELSE LET period == cands[i]
             n_cycles == Len(d) \div period
         IN  IF n_cycles < MinCycles
             THEN evaluate_candidates(d, cands, i + 1, best)
             ELSE LET rv == rel_var(d, period, n_cycles)
                      this == [best_period |-> period, best_rel_var |-> rv,
                               best_n_cycles |-> n_cycles]
                  IN  IF rv < RelVarThreshold THEN this
                      ELSE IF rv < best.best_rel_var
                           THEN evaluate_candidates(d, cands, i + 1, this)
                           ELSE evaluate_candidates(d, cands, i + 1, best)

get_periodic_equivalent_waveform(w) ==
    IF Len(data(w)) < MinSamples
    THEN Raise("ValueError: Not enough samples")
    ELSE IF Len(w.peaks) = 0
    THEN Raise("ValueError: No significant periodic component detected")
    ELSE LET best == evaluate_candidates(data(w), candidate_periods(w), 1, NoBest)
         IN  IF best.best_period = 0
             THEN Raise("ValueError: Could not find a consistent periodic pattern")
             ELSE CustomPeriodicWaveform(
                      mean_cycle(data(w), best.best_period, best.best_n_cycles),
                      RatDiv(RatOfInt(1),
                             RatMul(w.delta_time_sec, RatOfInt(best.best_period))),
                      w.multiplier_amplitude_volt * 2, w.offset_vdc, RatOfInt(0))

(***************************************************************************)
(* The comparison protocol, one call at a time                             *)
(***************************************************************************)
\* A call compare(self, with_waveform, max_allowed_rmse, ignore_phase) either
\* returns (or raises) or ends in a call of compare on another receiver, whose
\* result it returns unchanged.
Returns(r) == [t |-> "return", res |-> r]

Calls(self, with_waveform, max_allowed_rmse, ignore_phase) ==
    [t |-> "call", self |-> self, with_waveform |-> with_waveform,
     max_allowed_rmse |-> max_allowed_rmse, ignore_phase |-> ignore_phase]

BasePeriodicWaveform_compare(self, with_waveform, max_allowed_rmse, ignore_phase) ==
    IF IsCustomNonPeriodic(with_waveform)
    THEN LET with_waveform_periodic == get_periodic_equivalent_waveform(with_waveform)
         IN  IF IsRaise(with_waveform_periodic) THEN Returns(with_waveform_periodic)
             ELSE Calls(with_waveform_periodic.v, with_waveform, max_allowed_rmse,
                        ignore_phase)
    ELSE Returns(periodic_compare_direct(self, with_waveform, max_allowed_rmse,
                                         ignore_phase))

BaseNonPeriodicWaveform_compare(self, with_waveform, max_allowed_rmse) ==
    IF IsCustomPeriodic(with_waveform)
    THEN LET self_in_periodic == get_periodic_equivalent_waveform(self)
         IN  IF IsRaise(self_in_periodic) THEN Returns(self_in_periodic)
             ELSE Calls(self_in_periodic.v, with_waveform, max_allowed_rmse, FALSE)
    ELSE Returns(non_periodic_compare_direct(self, with_waveform, max_allowed_rmse))

\* the dispatch of w.compare(...) on the class of the receiver
compare_call(self, with_waveform, max_allowed_rmse, ignore_phase) ==
    IF IsPeriodic(self)
    THEN BasePeriodicWaveform_compare(self, with_waveform, max_allowed_rmse, ignore_phase)
    ELSE BaseNonPeriodicWaveform_compare(self, with_waveform, max_allowed_rmse)

\* The interpreter's limit on nested calls
MaxDepth == 3

\* The whole of w.compare(...): the result of the chain of calls, or the
\* RecursionError of a chain longer than the interpreter allows
RECURSIVE compare(_, _, _, _, _)
compare(self, with_waveform, max_allowed_rmse, ignore_phase, depth) ==
    LET step == compare_call(self, with_waveform, max_allowed_rmse, ignore_phase)
    IN  IF step.t = "return" THEN step.res
        ELSE IF depth >= MaxDepth THEN Raise("RecursionError")
        ELSE compare(step.self, step.with_waveform, step.max_allowed_rmse,
                     step.ignore_phase, depth + 1)

(***************************************************************************)
(* Inputs                                                                  *)
(***************************************************************************)
Wave4 == <<0, One, 0, -One>>

Ramp4 == <<One, 32, -One, 0>>

\* a cycle of 4 samples that resamples to <<One, -One>> at 2 samples
Cosine4 == <<One, 0, -One, 0>>

Pair2 == <<One, -One>>

Single1 == <<32>>

\* a sample of 1.5 and a sample just below -1
Above == <<0, One + 32>>

Below == <<-One - 1, 0>>

Pattern10 == <<0, 32, One, 32, 0, -32, -One, -32, 0, 16>>

Repeated(pattern, n) == [i \in 1..n |-> pattern[((i - 1) % Len(pattern)) + 1]]

\* a buffer long enough for the extraction, and one sample short of it
LongBuffer == Repeated(Pattern10, MinSamples)

ShortBuffer == Repeated(Pattern10, MinSamples - 1)

\* a cycle of 20 samples whose two halves differ in one sample
Pattern20 == Pattern10 \o [Pattern10 EXCEPT ![3] = 48]

NearBuffer == Repeated(Pattern20, MinSamples)

\* a square wave of two samples a cycle
AlternatingBuffer == Repeated(<<32, -32>>, MinSamples)

\* data and frequency of the custom periodic inputs
PeriodicShapes ==
    {<<Wave4, <<1, 1>>>>, <<Wave4, <<2, 1>>>>, <<Ramp4, <<1, 1>>>>,
     <<Pair2, <<1, 1>>>>, <<Single1, <<2, 1>>>>, <<Pattern10, <<5, 1>>>>,
     <<Cosine4, <<1, 1>>>>}

InvalidShapes == {<<Above, <<1, 1>>>>, <<Below, <<1, 1>>>>, <<<<>>, <<1, 1>>>>}

Amplitudes == {2, 4}

Offsets == {0, 1}

Phases == {<<0, 1>>, <<1, 4>>, <<7, 16>>, <<-1, 4>>, <<11, 8>>}

Multipliers == {1, 2}

Frequencies == {<<1, 1>>, <<2, 1>>}

GeneratorKinds == PeriodicKinds \ {"CustomPeriodicWaveform"}

\* data, sample interval and the answer of the peak search, of the custom
\* non-periodic inputs; a peak is never the first entry of the searched range
NonPeriodicShapes ==
    {<<Wave4, <<1, 4>>, <<>>>>, <<Wave4, <<1, 2>>, <<>>>>, <<Pair2, <<1, 4>>, <<>>>>,
     <<Pair2, <<3, 8>>, <<>>>>, <<Single1, <<1, 2>>, <<>>>>,
     <<ShortBuffer, <<1, 50>>, <<2, 12>>>>,
     <<LongBuffer, <<1, 50>>, <<>>>>, <<LongBuffer, <<1, 50>>, <<2, 12>>>>,
     <<LongBuffer, <<1, 50>>, <<12>>>>, <<LongBuffer, <<1, 50>>, <<5>>>>,
     <<LongBuffer, <<1, 50>>, <<150>>>>}

\* buffers with more answers of the peak search, for the choice of the period
SelectionShapes ==
    {<<LongBuffer, <<1, 50>>, <<5, 150>>>>,
     <<LongBuffer, <<1, 50>>, <<1, 3, 5, 7, 9, 11, 13, 15, 17, 19, 21, 23, 32>>>>,
     <<LongBuffer, <<1, 50>>, <<1, 3, 12>>>>,
     <<NearBuffer, <<1, 50>>, <<2, 12>>>>,
     <<NearBuffer, <<1, 50>>, <<5, 9>>>>,
     <<AlternatingBuffer, <<1, 50>>, <<7, 13, 17>>>>,
     <<AlternatingBuffer, <<1, 50>>, <<1, 7>>>>,
     <<AlternatingBuffer, <<1, 50>>, <<7, 9>>>>,
     <<AlternatingBuffer, <<1, 50>>, <<100, 150>>>>}

InvalidNonPeriodicShapes ==
    {<<Above, <<1, 4>>, <<>>>>, <<Below, <<1, 4>>, <<>>>>, <<<<>>, <<1, 4>>, <<>>>>}

Intervals == {<<1, 50>>, <<1, 8>>, <<1, 4>>, <<1, 3>>, <<1, 2>>, <<1, 1>>, <<2, 1>>}

DefaultRmse == <<1, 100>>

Tolerances == {DefaultRmse, <<2, 1>>}

\* The resampling of w to interval_sec is one whose weights are written out
Tabled(w, interval_sec) ==
    IF new_data_point_cnt(w, interval_sec) = 0 THEN TRUE
    ELSE ResampleTabled(Len(data(w)), new_data_point_cnt(w, interval_sec))

BothTabled(x, y) ==
    /\ Tabled(x, RatMax(delta_time_sec(x), delta_time_sec(y)))
    /\ Tabled(y, RatMax(delta_time_sec(x), delta_time_sec(y)))

\* Every resampling that x.compare(y) or x.get_phase_difference_to(y) reaches
\* is one whose weights are written out
PairTabled(x, y) ==
    IF IsPeriodic(x)
    THEN IF IsPeriodic(y)
         THEN (IF x.frequency_hz # y.frequency_hz THEN TRUE ELSE BothTabled(x, y))
         ELSE TRUE
    ELSE IF IsCustomPeriodic(y)
         THEN LET p == get_periodic_equivalent_waveform(x)
              IN  IF IsRaise(p) THEN TRUE
                  ELSE IF p.v.frequency_hz # y.frequency_hz THEN TRUE
                  ELSE BothTabled(p.v, y)
         ELSE BothTabled(x, y)

(***************************************************************************)
(* State                                                                   *)
(*   a, b     the waveform objects at hand (Null: none)                    *)
(*   pc       "idle", "compare" (inside a chain of compare calls), "done"  *)
(*   frame    the compare call that runs                                   *)
(*   ret      the last operation and what it returned or raised            *)
(*   derived  how many times a was replaced by a waveform derived from it  *)
(***************************************************************************)
Null == [kind |-> "None"]

NoFrame == [self |-> Null]

NoRet == [op |-> "none", res |-> NoValue]

MaxDerived == 2

Init ==
    /\ a = Null
    /\ b = Null
    /\ pc = "idle"
    /\ frame = NoFrame
    /\ ret = NoRet
    /\ derived = 0

\* A constructor call: the object is at hand unless the constructor raised
NewCustomPeriodicWaveform ==
    \E shape \in PeriodicShapes \cup InvalidShapes, vpp \in Amplitudes,
       off \in Offsets, ph \in Phases :
        LET r == CustomPeriodicWaveform(shape[1], shape[2], vpp, off, ph)
        IN  /\ pc = "idle"
            /\ a = Null
            /\ pc' = "done"
            /\ ret' = [op |-> "CustomPeriodicWaveform", input |-> shape[1], res |-> r]
            /\ a' = IF IsRaise(r) THEN a ELSE r.v
            /\ derived' = 0
            /\ UNCHANGED <<b, frame>>

NewCustomNonPeriodicWaveform ==
    \E shape \in NonPeriodicShapes \cup SelectionShapes \cup InvalidNonPeriodicShapes,
       mult \in Multipliers, off \in Offsets :
        LET r == CustomNonPeriodicWaveform(shape[1], mult, shape[2], off, shape[3])
        IN  /\ pc = "idle"
            /\ a = Null
            /\ pc' = "done"
            /\ ret' = [op |-> "CustomNonPeriodicWaveform", input |-> shape[1], res |-> r]
            /\ a' = IF IsRaise(r) THEN a ELSE r.v
            /\ derived' = 0
            /\ UNCHANGED <<b, frame>>

NewGenerator ==
    \E kind \in GeneratorKinds, f \in Frequencies, vpp \in Amplitudes,
       off \in Offsets, ph \in Phases :
        LET r == Generator(kind, f, vpp, off, ph)
        IN  /\ pc = "idle"
            /\ a = Null
            /\ pc' = "done"
            /\ ret' = [op |-> kind, input |-> data(r.v), res |-> r]
            /\ a' = r.v
            /\ derived' = 0
            /\ UNCHANGED <<b, frame>>

GetDataInVolts ==
    /\ pc = "idle"
    /\ a # Null
    /\ pc' = "done"
    /\ ret' = [op |-> "get_data_in_volts", self |-> a,
               res |-> PyArray(get_data_in_volts(a))]
    /\ UNCHANGED <<a, b, frame, derived>>

GetResampledVersion ==
    \E interval_sec \in Intervals :
        /\ pc = "idle"
        /\ a # Null
        /\ Tabled(a, interval_sec)
        /\ pc' = "done"
        /\ ret' = [op |-> "get_resampled_version", self |-> a,
                   interval_sec |-> interval_sec,
                   res |-> get_resampled_version(a, interval_sec)]
        /\ UNCHANGED <<a, b, frame, derived>>

GetPeriodicEquivalentWaveform ==
    /\ pc = "idle"
    /\ a # Null
    /\ ~IsPeriodic(a)
    /\ pc' = "done"
    /\ ret' = [op |-> "get_periodic_equivalent_waveform", self |-> a,
               res |-> get_periodic_equivalent_waveform(a)]
    /\ UNCHANGED <<a, b, frame, derived>>

\* the caller goes on with the waveform the last operation returned
Keep ==
    /\ pc = "done"
    /\ ret.op \in {"get_resampled_version", "get_periodic_equivalent_waveform"}
    /\ ret.res.t = "waveform"
    /\ derived < MaxDerived
    /\ a' = ret.res.v
    /\ derived' = derived + 1
    /\ pc' = "idle"
    /\ ret' = NoRet
    /\ UNCHANGED <<b, frame>>

Return ==
    /\ pc = "done"
    /\ pc' = "idle"
    /\ ret' = NoRet
    /\ UNCHANGED <<a, b, frame, derived>>

\* the object at hand goes out of scope
Discard ==
    /\ pc = "idle"
    /\ a # Null
    /\ a' = Null
    /\ derived' = 0
    /\ UNCHANGED <<b, pc, frame, ret>>

Next ==
    \/ NewCustomPeriodicWaveform
    \/ NewCustomNonPeriodicWaveform
    \/ NewGenerator
    \/ GetDataInVolts
    \/ GetResampledVersion
    \/ GetPeriodicEquivalentWaveform
    \/ Keep
    \/ Return
    \/ Discard

Spec == Init /\ [][Next]_vars

(***************************************************************************)
(* Two waveforms at hand: comparison and phase difference                  *)
(***************************************************************************)
\* amplitude (peak-to-peak, or the multiplier), offset and phase
Settings ==
    {<<2, 0, <<0, 1>>>>, <<2, 0, <<1, 4>>>>, <<2, 0, <<7, 16>>>>,
     <<2, 0, <<-1, 4>>>>, <<4, 0, <<0, 1>>>>, <<2, 1, <<1, 4>>>>}

GeneratorSettings == {<<2, 0, <<0, 1>>>>, <<2, 0, <<1, 4>>>>}

NonPeriodicSettings == {<<1, 0>>, <<2, 0>>, <<1, 1>>}

Objects(results) == {r.v : r \in {x \in results : ~IsRaise(x)}}

Extractable == {<<LongBuffer, <<1, 50>>, <<2, 12>>>>, <<LongBuffer, <<1, 50>>, <<12>>>>}

\* the waveforms a caller may hold: constructed ones and periodic equivalents
Operands ==
    Objects({CustomPeriodicWaveform(shape[1], shape[2], s[1], s[2], s[3]) :
                 shape \in PeriodicShapes, s \in Settings})
    \cup Objects({Generator(kind, <<1, 1>>, s[1], s[2], s[3]) :
                 kind \in GeneratorKinds, s \in GeneratorSettings})
    \cup Objects({CustomNonPeriodicWaveform(shape[1], s[1], shape[2], s[2], shape[3]) :
                 shape \in {x \in NonPeriodicShapes : Len(x[1]) < MinSamples - 1},
                 s \in NonPeriodicSettings})
    \cup Objects({CustomNonPeriodicWaveform(shape[1], 1, shape[2], 0, shape[3]) :
                 shape \in {x \in NonPeriodicShapes : Len(x[1]) >= MinSamples - 1}})
    \cup Objects({get_periodic_equivalent_waveform(
                      CustomNonPeriodicWaveform(shape[1], 1, shape[2], 0, shape[3]).v) :
                 shape \in Extractable})

InitCompare ==
    /\ a \in Operands
    /\ b \in Operands
    /\ pc = "idle"
    /\ frame = NoFrame
    /\ ret = NoRet
    /\ derived = 0

\* a.compare(b, max_allowed_rmse, ignore_phase); the non-periodic compare takes
\* no ignore_phase
CallCompare ==
    /\ pc = "idle"
    /\ PairTabled(a, b)
    /\ \E max_allowed_rmse \in Tolerances, ignore_phase \in BOOLEAN :
        /\ ignore_phase => IsPeriodic(a)
        /\ pc' = "compare"
        /\ frame' = [self |-> a, with_waveform |-> b,
                     max_allowed_rmse |-> max_allowed_rmse,
                     ignore_phase |-> ignore_phase, depth |-> 0, conversions |-> 0]
        /\ ret' = [op |-> "compare", self |-> a, with_waveform |-> b,
                   max_allowed_rmse |-> max_allowed_rmse,
                   ignore_phase |-> ignore_phase, res |-> NoValue,
                   conversions |-> 0, path |-> "none"]
        /\ UNCHANGED <<a, b, derived>>

\* what a compare call does to the chain of calls: it returns to the caller,
\* or calls compare on the periodic equivalent, or exceeds the nesting limit
Advance(step, path) ==
    IF step.t = "return"
    THEN /\ pc' = "done"
         /\ frame' = NoFrame
         /\ ret' = [ret EXCEPT !.res = step.res, !.path = path,
                               !.conversions = frame.conversions
                                   + (IF path = "converted" THEN 1 ELSE 0)]
    ELSE IF frame.depth >= MaxDepth
    THEN /\ pc' = "done"
         /\ frame' = NoFrame
         /\ ret' = [ret EXCEPT !.res = Raise("RecursionError"), !.path = path,
                               !.conversions = frame.conversions + 1]
    ELSE /\ pc' = "compare"
         /\ frame' = [self |-> step.self, with_waveform |-> step.with_waveform,
                      max_allowed_rmse |-> step.max_allowed_rmse,
                      ignore_phase |-> step.ignore_phase,
                      depth |-> frame.depth + 1,
                      conversions |-> frame.conversions + 1]
         /\ ret' = ret

PeriodicCompare ==
    /\ pc = "compare"
    /\ IsPeriodic(frame.self)
    /\ Advance(BasePeriodicWaveform_compare(frame.self, frame.with_waveform,
                                            frame.max_allowed_rmse, frame.ignore_phase),
               IF IsCustomNonPeriodic(frame.with_waveform)
               THEN "converted" ELSE "periodic")
    /\ UNCHANGED <<a, b, derived>>

NonPeriodicCompare ==
    /\ pc = "compare"
    /\ ~IsPeriodic(frame.self)
    /\ Advance(BaseNonPeriodicWaveform_compare(frame.self, frame.with_waveform,
                                               frame.max_allowed_rmse),
               IF IsCustomPeriodic(frame.with_waveform)
               THEN "converted" ELSE "non_periodic")
    /\ UNCHANGED <<a, b, derived>>

GetPhaseDifferenceTo ==
    /\ pc = "idle"
    /\ IsPeriodic(a)
    /\ IsPeriodic(b)
    /\ PairTabled(a, b)
    /\ \E max_allowed_rmse \in Tolerances :
        /\ pc' = "done"
        /\ ret' = [op |-> "get_phase_difference_to", self |-> a, other |-> b,
                   max_allowed_rmse |-> max_allowed_rmse,
                   res |-> get_phase_difference_to(a, b, max_allowed_rmse)]
        /\ UNCHANGED <<a, b, frame, derived>>

NextCompare ==
    \/ CallCompare
    \/ PeriodicCompare
    \/ NonPeriodicCompare
    \/ GetPhaseDifferenceTo
    \/ Return

SpecCompare == InitCompare /\ [][NextCompare]_vars

(***************************************************************************)
(* Properties of the comparison protocol (under SpecCompare)               *)
(***************************************************************************)
CompareDone == pc = "done" /\ ret.op = "compare"

PhaseDone == pc = "done" /\ ret.op = "get_phase_difference_to"

\* two outcomes are the same value, or the same error
SameResult(x, y) ==
    IF x.t # y.t THEN FALSE
    ELSE IF x.t \in {"none", "nothing"} THEN TRUE
    ELSE x.v = y.v

\* C1: P.compare(N, max_rmse, ignore_phase), for a periodic P and a
\* non-periodic N whose periodic equivalent can be extracted, ends after one
\* conversion and returns what the periodic comparison of N's periodic
\* equivalent with P returns.
C1_SingleConversion ==
    (/\ CompareDone
     /\ IsPeriodic(ret.self)
     /\ ~IsPeriodic(ret.with_waveform)
     /\ ~IsRaise(get_periodic_equivalent_waveform(ret.with_waveform)))
    => /\ ret.conversions = 1
       /\ SameResult(ret.res,
                     periodic_compare_direct(
                         get_periodic_equivalent_waveform(ret.with_waveform).v,
                         ret.self, ret.max_allowed_rmse, ret.ignore_phase))

\* C2: N.compare(P, max_rmse), for a non-periodic N and a periodic P of any
\* variant, never ends on the non-periodic RMSE path.
C2_NeverNonPeriodicPath ==
    (/\ CompareDone
     /\ ~IsPeriodic(ret.self)
     /\ IsPeriodic(ret.with_waveform))
    => ret.path # "non_periodic"

\* C3: get_phase_difference_to returns none when amplitude or frequency
\* differ, and whatever it returns is none or a phase within one full turn.
C3_NoneOrPhase ==
    (PhaseDone /\ ~IsRaise(ret.res))
    => /\ (\/ ret.self.amplitude_vpp # ret.other.amplitude_vpp
           \/ ret.self.frequency_hz # ret.other.frequency_hz)
          => SameResult(ret.res, PyNone)
       /\ \/ SameResult(ret.res, PyNone)
          \/ /\ ret.res.t = "float"
             /\ RatLeq(RatOfInt(0), ret.res.v)
             /\ RatLeq(ret.res.v, RatOfInt(1))

\* C4: with the default tolerance a.compare(b) and b.compare(a) give the same
\* result, for pairs of one kind and for mixed pairs.
C4_Symmetric ==
    (/\ CompareDone
     /\ ret.max_allowed_rmse = DefaultRmse
     /\ ~ret.ignore_phase
     /\ PairTabled(ret.with_waveform, ret.self))
    => SameResult(ret.res, compare(ret.with_waveform, ret.self, DefaultRmse, FALSE, 0))

\* the two waveforms of the finished comparison differ in nothing but phase
SameButPhase ==
    /\ IsPeriodic(ret.self)
    /\ IsPeriodic(ret.with_waveform)
    /\ data(ret.self) = data(ret.with_waveform)
    /\ ret.self.frequency_hz = ret.with_waveform.frequency_hz
    /\ ret.self.amplitude_vpp = ret.with_waveform.amplitude_vpp
    /\ ret.self.offset_vdc = ret.with_waveform.offset_vdc

C6_SelfCompare ==
    (/\ CompareDone
     /\ ret.self = ret.with_waveform
     /\ ret.max_allowed_rmse = DefaultRmse)
    => SameResult(ret.res, PyBool(TRUE))

\* a generator with a phase has been compared with itself
C6_Witness ==
    /\ CompareDone
    /\ ret.self = ret.with_waveform
    /\ ret.max_allowed_rmse = DefaultRmse
    /\ ret.self.kind \in GeneratorKinds
    /\ ret.self.phase # RatOfInt(0)
    /\ ~ret.ignore_phase
    /\ SameResult(ret.res, PyBool(TRUE))

(***************************************************************************)
(* Properties of single waveforms (under Spec)                             *)
(***************************************************************************)
VoltsDone == pc = "done" /\ ret.op = "get_data_in_volts"

ResampleDone == pc = "done" /\ ret.op = "get_resampled_version"

\* C7: for a non-periodic waveform get_data_in_volts gives, for each sample
\* s, s * amplitude + offset: the offset is added.
C7_OffsetAdded ==
    (VoltsDone /\ ~IsPeriodic(ret.self))
    => /\ Len(ret.res.v) = Len(data(ret.self))
       /\ \A i \in 1..Len(data(ret.self)) :
              ret.res.v[i] = 2 * data(ret.self)[i] * ret.self.multiplier_amplitude_volt
                                 + ret.self.offset_vdc * VoltOne

\* sample_count * (phase mod one turn), exactly
ScaledPhase == RatMul(RatOfInt(Len(data(ret.self))), ModTurn(ret.self.phase))

\* the voltages of the finished conversion are those of the cycle read from
\* index k on, cyclically: sample * vpp / 2 - offset
RotatedBy(k) ==
    /\ Len(ret.res.v) = Len(data(ret.self))
    /\ \A i \in 1..Len(data(ret.self)) :
           ret.res.v[i] =
               data(ret.self)[((i - 1 + k) % Len(data(ret.self))) + 1]
                   * ret.self.amplitude_vpp
               - ret.self.offset_vdc * VoltOne

ScaledCount ==
    RatMul(RatOfInt(Len(data(ret.self))),
           RatDiv(delta_time_sec(ret.self), ret.interval_sec))

\* C9: get_resampled_version returns a waveform of
\* round(old_count * old_interval / target_interval) samples, fails with the
\* error of an impossible resampling exactly when that count is zero, for both
\* variants, and leaves the waveform as it was.
C9_RoundedCount ==
    ResampleDone
    => /\ a = ret.self
       /\ IF py_round(ScaledCount) = 0
          THEN SameResult(ret.res, Raise("ValueError: can not resample data"))
          ELSE /\ ret.res.t = "waveform"
               /\ Len(data(ret.res.v)) = py_round(ScaledCount)

InRange(w) == \A i \in 1..Len(data(w)) : -One <= data(w)[i] /\ data(w)[i] <= One

IsWaveform(w) == w.kind \in PeriodicKinds \cup {"CustomNonPeriodicWaveform"}

SelectionDone ==
    /\ pc = "done"
    /\ ret.op = "get_periodic_equivalent_waveform"
    /\ Len(data(ret.self)) >= MinSamples
    /\ Len(ret.self.peaks) > 0

\* positions, in ascending order of period, of the candidates that are
\* visited and not skipped
Visited ==
    {i \in 1..Len(candidate_periods(ret.self)) :
        /\ i <= MaxCandidates
        /\ Len(data(ret.self)) \div candidate_periods(ret.self)[i] >= MinCycles}

RelVarAt(i) ==
    rel_var(data(ret.self), candidate_periods(ret.self)[i],
            Len(data(ret.self)) \div candidate_periods(ret.self)[i])

Accepted == {i \in Visited : RelVarAt(i) < RelVarThreshold}

\* the first accepted candidate, else the earliest of minimal rel_var
ChosenPosition ==
    IF Accepted # {}
    THEN CHOOSE i \in Accepted : \A j \in Accepted : i <= j
    ELSE CHOOSE i \in Visited :
             \A j \in Visited :
                 \/ RelVarAt(i) < RelVarAt(j)
                 \/ RelVarAt(i) = RelVarAt(j) /\ i <= j

\* C11: the period chosen is that of the first candidate, among the at most
\* 12 smallest taken in ascending order and without those of fewer than 3
\* cycles, whose rel_var is below 0.22; without such a candidate it is the
\* earliest candidate of minimal rel_var; the extraction fails with the error
\* of no consistent pattern exactly when no candidate is left to choose from.
C11_PeriodSelection ==
    SelectionDone
    => IF Visited = {}
       THEN SameResult(ret.res,
                Raise("ValueError: Could not find a consistent periodic pattern"))
       ELSE /\ ret.res.t = "waveform"
            /\ Len(data(ret.res.v)) = candidate_periods(ret.self)[ChosenPosition]
            /\ ret.res.v.frequency_hz =
                   RatDiv(RatOfInt(1),
                          RatMul(ret.self.delta_time_sec,
                                 RatOfInt(candidate_periods(ret.self)[ChosenPosition])))

\* the first candidate below the threshold was chosen although a later
\* candidate has a smaller rel_var
C11_Witness ==
    /\ SelectionDone
    /\ Accepted # {}
    /\ \E j \in Visited : j > ChosenPosition /\ RelVarAt(j) < RelVarAt(ChosenPosition)
    /\ ret.res.t = "waveform"
    /\ Len(data(ret.res.v)) = candidate_periods(ret.self)[ChosenPosition]

(***************************************************************************)
(* Properties of the comparison that ignores phase (under SpecCompare)     *)
(***************************************************************************)
IgnorePhaseDone ==
    /\ CompareDone
    /\ ret.ignore_phase
    /\ IsPeriodic(ret.self)
    /\ IsPeriodic(ret.with_waveform)
    /\ ret.self.frequency_hz = ret.with_waveform.frequency_hz

\* C12: two periodic waveforms of one frequency and different peak-to-peak
\* amplitude never compare equal with ignore_phase; the comparison is True
\* only if get_phase_difference_to found a phase.
C12_AmplitudeDecides ==
    IgnorePhaseDone
    => /\ ret.self.amplitude_vpp # ret.with_waveform.amplitude_vpp
          => SameResult(ret.res, PyBool(FALSE))
       /\ SameResult(ret.res, PyBool(TRUE))
          => get_phase_difference_to(ret.self, ret.with_waveform,
                                     ret.max_allowed_rmse).t = "float"

\* C13: for two periodic waveforms of one frequency, amplitude and offset and
\* different sample counts, a.compare(b, ignore_phase=True) and
\* b.compare(a, ignore_phase=True) give the same result.
C13_FinerOperandIrrelevant ==
    (/\ IgnorePhaseDone
     /\ ret.self.amplitude_vpp = ret.with_waveform.amplitude_vpp
     /\ ret.self.offset_vdc = ret.with_waveform.offset_vdc
     /\ Len(data(ret.self)) # Len(data(ret.with_waveform))
     /\ PairTabled(ret.with_waveform, ret.self))
    => SameResult(ret.res,
                  compare(ret.with_waveform, ret.self, ret.max_allowed_rmse, TRUE, 0))

====
